---- MODULE Spec2Model ----
(***************************************************************************)
(* The extensible vector-quantisation codebook of src/model/vqmodel.py:    *)
(* the store of codebooks held by extVQ (self.codebooks), the forward pass *)
(* of extVQ (flatten, optional extension, codeword selection, nearest      *)
(* codeword assignment, quantisation) and the store operations of UEFL     *)
(* (init_codebooks, get_codebooks, load_codebooks, extend_codebooks).      *)
(*                                                                         *)
(* Tensors are modelled by their shape and their contiguous (row-major)    *)
(* element sequence; scalars are small integers, on which the distance     *)
(* arithmetic of the code is exact.  Indices that the code keeps 0-based   *)
(* (silo index, encoding indices) stay 0-based; TLA+ sequences are 1-based.*)
(***************************************************************************)
EXTENDS Integers, Sequences, FiniteSets, TLC

\* ---------------------------------------------------------------- constants
\* Hyper-parameters of extVQ.__init__.
NumEmbeddings == 2
EmbeddingDim == 2

\* ------------------------------------------------------------------- bounds
\* The store is never grown beyond MaxStore codebooks.
MaxStore == 3
\* Feature scalars are in 0..MaxFeature.
MaxFeature == 1
\* init_codebooks sees 0..MaxRows feature rows.
MaxRows == 3
\* extend_codebooks is called with iteration in 0..MaxIteration.
MaxIteration == 2

VARIABLES
    codebooks,  \* extVQ.codebooks: sequence of [id, weight]; index 1 is the shared codebook
    op,         \* the operation that ran last
    args,       \* its arguments
    outcome,    \* "ok", or the exception it raised
    out         \* what it returned or computed

vars == <<codebooks, op, args, outcome, out>>

\* ------------------------------------------------------------------ helpers
RECURSIVE SumSeq(_)
SumSeq(s) == IF s = <<>> THEN 0 ELSE Head(s) + SumSeq(Tail(s))

RECURSIVE Flatten(_)
Flatten(rows) == IF rows = <<>> THEN <<>> ELSE Head(rows) \o Flatten(Tail(rows))

RECURSIVE Pow2(_)
Pow2(n) == IF n = 0 THEN 1 ELSE 2 * Pow2(n - 1)

\* The n-th weight matrix of shape NumEmbeddings x EmbeddingDim: the binary
\* digits of n, first row first.
Weight(n) ==
    [i \in 1..NumEmbeddings |->
        [d \in 1..EmbeddingDim |->
            (n \div Pow2((i - 1) * EmbeddingDim + (d - 1))) % 2]]

\* The weight matrices the model draws from: the values normal_() gives a new
\* codebook, the matrices a caller loads, the centroids k-means returns.
\*   Weight(0) = ((0,0),(0,0))   two equal codewords
\*   Weight(9) = ((1,0),(0,1))   two distinct codewords
WeightPool == {Weight(0), Weight(9)}

Numel(shape) == shape[1] * shape[2] * shape[3] * shape[4]

\* Shapes B x C x H x W of the feature tensors: the channel count C equal to
\* EmbeddingDim (with one or several spatial positions or samples) and
\* different from it (with an element count that EmbeddingDim divides or not).
Shapes ==
    {<<1, 2, 1, 1>>, <<1, 2, 1, 2>>, <<2, 2, 1, 1>>,
     <<1, 1, 1, 1>>, <<1, 1, 1, 2>>, <<1, 3, 1, 1>>, <<1, 4, 1, 1>>}

\* Feature tensors of layout B x C x H x W.
Tensors ==
    UNION {{[shape |-> s, data |-> d] : d \in [1..Numel(s) -> 0..MaxFeature]} : s \in Shapes}

NoOutput == [flat_input |-> <<>>, codes |-> <<>>, encoding_indices |-> <<>>,
             encodings |-> <<>>, quantized |-> <<>>]

\* ------------------------------------------------------------------- store
\* Mutant of AppendCodebook: the new codebook is inserted at the front.
PrependCodebook(store, w) == <<[id |-> Len(store) + 1, weight |-> w]>> \o store

\* nn.ModuleList.append of a new nn.Embedding with weights w.
AppendCodebook(store, w) == Append(store, [id |-> Len(store) + 1, weight |-> w])

\* Indexing of the ModuleList by a Python integer: in range iff -n <= idx < n.
InRange(idx, n) == -n <= idx /\ idx < n

\* The 1-based position a valid Python index idx denotes in a list of n.
AbsIndex(idx, n) == IF idx < 0 THEN idx + n + 1 ELSE idx + 1

Init ==
    /\ \E w0 \in WeightPool, w1 \in WeightPool :
           codebooks = AppendCodebook(AppendCodebook(<<>>, w0), w1)
    /\ op = "__init__"
    /\ args = <<>>
    /\ outcome = "ok"
    /\ out = <<>>

\* ------------------------------------------------------------------ forward
\* inputs.permute(0, 2, 3, 1).contiguous(): B x C x H x W -> B x H x W x C.
\* The element at (b, h, w, c) of the result is the element at (b, c, h, w).
PermuteBHWC(t) ==
    LET B == t.shape[1]
        C == t.shape[2]
        H == t.shape[3]
        W == t.shape[4]
    IN  [shape |-> <<B, H, W, C>>,
         data |-> [p \in 1..Numel(t.shape) |->
                     LET q == p - 1
                         c == q % C
                         w == (q \div C) % W
                         h == (q \div (C * W)) % H
                         b == q \div (C * W * H)
                     IN  t.data[((b * C + c) * H + h) * W + w + 1]]]

\* quantized.permute(0, 3, 1, 2).contiguous(): B x H x W x C -> B x C x H x W.
PermuteBCHW(t) ==
    LET B == t.shape[1]
        H == t.shape[2]
        W == t.shape[3]
        C == t.shape[4]
    IN  [shape |-> <<B, C, H, W>>,
         data |-> [p \in 1..Numel(t.shape) |->
                     LET q == p - 1
                         w == q % W
                         h == (q \div W) % H
                         c == (q \div (W * H)) % C
                         b == q \div (W * H * C)
                     IN  t.data[((b * H + h) * W + w) * C + c + 1]]]

\* tensor.view(-1, cols) is defined iff the element count divides by cols.
CanView(data, cols) == Len(data) % cols = 0

\* tensor.view(-1, cols): consecutive elements regrouped into rows of cols.
View(data, cols) ==
    [r \in 1..(Len(data) \div cols) |->
        [d \in 1..cols |-> data[(r - 1) * cols + d]]]

\* Mutant of SelectCodes: the silo's codebook is concatenated first.
SelectCodesSiloFirst(store, idx) ==
    IF idx = 0
    THEN store[1].weight
    ELSE store[AbsIndex(idx, Len(store))].weight \o store[1].weight

\* The accessible codewords of silo idx (a valid index of the store).
SelectCodes(store, idx) ==
    IF idx = 0
    THEN store[1].weight
    ELSE store[1].weight \o store[AbsIndex(idx, Len(store))].weight

\* sum(x ** 2) + sum(c ** 2) - 2 * x . c for every flattened row and codeword.
Distances(flat, codes) ==
    [r \in 1..Len(flat) |->
        [j \in 1..Len(codes) |->
            SumSeq([d \in 1..Len(flat[r]) |-> flat[r][d] * flat[r][d]])
          + SumSeq([d \in 1..Len(codes[j]) |-> codes[j][d] * codes[j][d]])
          - 2 * SumSeq([d \in 1..Len(flat[r]) |-> flat[r][d] * codes[j][d]])]]

\* Mutant of Argmin: the last minimal value is taken.
ArgminLast(row) ==
    (CHOOSE j \in 1..Len(row) :
        /\ \A k \in 1..Len(row) : row[j] <= row[k]
        /\ \A k \in (j + 1)..Len(row) : row[k] > row[j]) - 1

\* torch.argmin over one row: the 0-based index of the first minimal value.
Argmin(row) ==
    (CHOOSE j \in 1..Len(row) :
        /\ \A k \in 1..Len(row) : row[j] <= row[k]
        /\ \A k \in 1..(j - 1) : row[k] > row[j]) - 1

\* Mutant of Scatter: the matrix starts from torch.ones instead of torch.zeros.
ScatterOnOnes(indices, m) ==
    [r \in 1..Len(indices) |-> [j \in 1..m |-> 1]]

\* torch.zeros(n, m) followed by scatter_(1, indices, 1).
Scatter(indices, m) ==
    [r \in 1..Len(indices) |->
        [j \in 1..m |-> IF j = indices[r] + 1 THEN 1 ELSE 0]]

\* torch.matmul of an n x m matrix with an m x d matrix.
Matmul(a, b) ==
    [r \in 1..Len(a) |->
        [d \in 1..Len(b[1]) |->
            SumSeq([j \in 1..Len(b) |-> a[r][j] * b[j][d]])]]

\* Mutant of ForwardCall: the codebook is appended after the assignment, so
\* the selection sees the store as it was before the call.
ForwardCallAppendLast(store, inputs, idx, ext, w) ==
    LET permuted == PermuteBHWC(inputs)
    IN  IF ~CanView(permuted.data, EmbeddingDim)
        THEN [outcome |-> "RuntimeError", store |-> store, out |-> NoOutput]
        ELSE
        LET flat == View(permuted.data, EmbeddingDim)
        IN  IF idx # 0 /\ ~InRange(idx, Len(store))
            THEN [outcome |-> "IndexError", store |-> store,
                  out |-> [NoOutput EXCEPT !.flat_input = flat]]
            ELSE
            LET codes == SelectCodes(store, idx)
                distances == Distances(flat, codes)
                indices == [r \in 1..Len(flat) |-> Argmin(distances[r])]
                encodings == Scatter(indices, Len(codes))
                quantized == [shape |-> permuted.shape,
                              data |-> Flatten(Matmul(encodings, codes))]
            IN  [outcome |-> "ok",
                 store |-> IF ext THEN AppendCodebook(store, w) ELSE store,
                 out |-> [flat_input |-> flat, codes |-> codes,
                          encoding_indices |-> indices, encodings |-> encodings,
                          quantized |-> PermuteBCHW(quantized)]]

\* extVQ.forward: the outcome, the store it leaves and what it computed.
\* w is the weight matrix of the codebook appended when ext is set.
ForwardCall(store, inputs, idx, ext, w) ==
    LET permuted == PermuteBHWC(inputs)
    IN  IF ~CanView(permuted.data, EmbeddingDim)
        THEN [outcome |-> "RuntimeError", store |-> store, out |-> NoOutput]
        ELSE
        LET flat == View(permuted.data, EmbeddingDim)
            store1 == IF ext THEN AppendCodebook(store, w) ELSE store
        IN  IF idx # 0 /\ ~InRange(idx, Len(store1))
            THEN [outcome |-> "IndexError", store |-> store1,
                  out |-> [NoOutput EXCEPT !.flat_input = flat]]
            ELSE
            LET codes == SelectCodes(store1, idx)
                distances == Distances(flat, codes)
                indices == [r \in 1..Len(flat) |-> Argmin(distances[r])]
                encodings == Scatter(indices, Len(codes))
                quantized == [shape |-> permuted.shape,
                              data |-> Flatten(Matmul(encodings, codes))]
            IN  [outcome |-> "ok", store |-> store1,
                 out |-> [flat_input |-> flat, codes |-> codes,
                          encoding_indices |-> indices, encodings |-> encodings,
                          quantized |-> PermuteBCHW(quantized)]]

\* The silo indices a caller passes: every index of the store, the two beyond
\* its ends on either side, and their negatives.
SiloIndices(store) == -(Len(store) + 2)..(Len(store) + 1)

Forward ==
    /\ op = "idle"
    /\ \E inputs \in Tensors, idx \in SiloIndices(codebooks), ext \in BOOLEAN :
        \E w \in (IF ext THEN WeightPool ELSE {Weight(0)}) :
            /\ ext => Len(codebooks) < MaxStore
            /\ LET call == ForwardCall(codebooks, inputs, idx, ext, w)
               IN  /\ op' = "forward"
                   /\ args' = [inputs |-> inputs, idx |-> idx, ext |-> ext]
                   /\ outcome' = call.outcome
                   /\ out' = call.out
                   /\ codebooks' = call.store

\* ------------------------------------------------------------ get_codebooks
GetCodebooksCall(store) == [i \in 1..Len(store) |-> store[i].weight]

GetCodebooks ==
    /\ op = "idle"
    /\ op' = "get_codebooks"
    /\ args' = <<>>
    /\ outcome' = "ok"
    /\ out' = GetCodebooksCall(codebooks)
    /\ UNCHANGED codebooks

\* ----------------------------------------------------------- load_codebooks
\* The loop of load_codebooks from position i on: codebooks[i] of the argument
\* raises IndexError once i passes the end of the argument.
RECURSIVE LoadLoop(_, _, _)
LoadLoop(store, list, i) ==
    IF i > Len(store) THEN [outcome |-> "ok", store |-> store]
    ELSE IF i > Len(list) THEN [outcome |-> "IndexError", store |-> store]
    ELSE LoadLoop([store EXCEPT ![i].weight = list[i]], list, i + 1)

LoadCodebooksCall(store, list) == LoadLoop(store, list, 1)

\* The lists a caller loads: up to one entry more than the store holds.
WeightLists(n) == UNION {[1..k -> WeightPool] : k \in 0..(n + 1)}

LoadCodebooks ==
    /\ op = "idle"
    /\ \E list \in WeightLists(Len(codebooks)) :
        LET call == LoadCodebooksCall(codebooks, list)
        IN  /\ op' = "load_codebooks"
            /\ args' = [codebooks |-> list]
            /\ outcome' = call.outcome
            /\ out' = <<>>
            /\ codebooks' = call.store

\* --------------------------------------------------------- extend_codebooks
\* Mutant of ExtendCodebooksCall: the first iteration extends too.
ExtendFromFirstIteration(store, iteration, w) ==
    IF iteration >= 1 THEN AppendCodebook(store, w) ELSE store

\* w is the weight matrix of the codebook appended.
ExtendCodebooksCall(store, iteration, w) ==
    IF iteration > 1 THEN AppendCodebook(store, w) ELSE store

ExtendCodebooks ==
    /\ op = "idle"
    /\ \E iteration \in 0..MaxIteration :
       \E w \in (IF iteration > 1 THEN WeightPool ELSE {Weight(0)}) :
        /\ Len(codebooks) < MaxStore
        /\ op' = "extend_codebooks"
        /\ args' = [iteration |-> iteration]
        /\ outcome' = "ok"
        /\ out' = <<>>
        /\ codebooks' = ExtendCodebooksCall(codebooks, iteration, w)

\* ----------------------------------------------------------- init_codebooks
\* Mutant of InitCodebooksCall: the target codebook is overwritten before the
\* clustering is known to have succeeded.
InitCodebooksWriteFirst(store, nRows, idx, centers) ==
    LET written == IF InRange(idx, Len(store))
                   THEN [store EXCEPT ![AbsIndex(idx, Len(store))].weight = centers]
                   ELSE store
    IN  IF nRows = 0 THEN [outcome |-> "RuntimeError", store |-> written]
        ELSE IF nRows < NumEmbeddings THEN [outcome |-> "ValueError", store |-> written]
        ELSE IF ~InRange(idx, Len(store)) THEN [outcome |-> "IndexError", store |-> store]
        ELSE [outcome |-> "ok", store |-> written]

\* KMeans(n_clusters).fit on nRows feature rows raises ValueError when there
\* are fewer rows than clusters; torch.concat of no batch at all raises
\* RuntimeError.  centers is what cluster_centers_ holds after a fit.
InitCodebooksCall(store, nRows, idx, centers) ==
    IF nRows = 0 THEN [outcome |-> "RuntimeError", store |-> store]
    ELSE IF nRows < NumEmbeddings THEN [outcome |-> "ValueError", store |-> store]
    ELSE IF ~InRange(idx, Len(store)) THEN [outcome |-> "IndexError", store |-> store]
    ELSE [outcome |-> "ok",
          store |-> [store EXCEPT ![AbsIndex(idx, Len(store))].weight = centers]]

InitCodebooks ==
    /\ op = "idle"
    /\ \E nRows \in 0..MaxRows, idx \in SiloIndices(codebooks), centers \in WeightPool :
        LET call == InitCodebooksCall(codebooks, nRows, idx, centers)
        IN  /\ op' = "init_codebooks"
            /\ args' = [nRows |-> nRows, idx |-> idx]
            /\ outcome' = call.outcome
            /\ out' = <<>>
            /\ codebooks' = call.store

\* ------------------------------------------------------------------ caller
\* The caller takes the result of the call that ended; the next call follows.
Return ==
    /\ op # "idle"
    /\ op' = "idle"
    /\ args' = <<>>
    /\ outcome' = "ok"
    /\ out' = <<>>
    /\ UNCHANGED codebooks


\* =================================================================== claims
\* The squared Euclidean distance of a feature row and a codeword, term by term.
SqDist(x, c) == SumSeq([d \in 1..Len(x) |-> (x[d] - c[d]) * (x[d] - c[d])])

\* The rows the returned quantized tensor holds, in the layout of flat_input.
QuantizedRows == View(PermuteBHWC(out.quantized).data, EmbeddingDim)

ForwardOk == op = "forward" /\ outcome = "ok"

\* C1 (as claimed): load_codebooks with a list whose length differs from the
\* store's fails and leaves every codebook's weights as they were.
C1_LoadMismatchFailsUntouched ==
    [][(op' = "load_codebooks" /\ Len(args'.codebooks) # Len(codebooks))
          => (outcome' # "ok" /\ codebooks' = codebooks)]_vars

\* C2 (as claimed): every extend_codebooks call, whatever its argument,
\* appends exactly one codebook.
C2_EveryExtendAppends ==
    [][op' = "extend_codebooks" => Len(codebooks') = Len(codebooks) + 1]_vars

\* C2 (amended): an extend_codebooks call with iteration > 1 appends exactly
\* one codebook of shape NumEmbeddings x EmbeddingDim and leaves the others as
\* they were; a call with iteration <= 1 leaves the store unchanged.
C2_ExtendAppendsIffIterationAboveOne ==
    [][op' = "extend_codebooks" =>
          IF args'.iteration > 1
          THEN /\ Len(codebooks') = Len(codebooks) + 1
               /\ SubSeq(codebooks', 1, Len(codebooks)) = codebooks
               /\ Len(codebooks'[Len(codebooks')].weight) = NumEmbeddings
               /\ \A i \in 1..NumEmbeddings :
                      Len(codebooks'[Len(codebooks')].weight[i]) = EmbeddingDim
          ELSE codebooks' = codebooks]_vars

C2_Witness ==
    op = "extend_codebooks" /\ args.iteration > 1 /\ Len(codebooks) = 3

\* C3 (as claimed, for a call without extension whose features flatten): a
\* forward pass whose silo index is negative or >= the store length fails with
\* an invalid-index failure and leaves the store as it was.
C3_InvalidIndexFails ==
    [][(/\ op' = "forward"
        /\ ~args'.ext
        /\ CanView(args'.inputs.data, EmbeddingDim)
        /\ (args'.idx < 0 \/ args'.idx >= Len(codebooks)))
          => (outcome' = "IndexError" /\ codebooks' = codebooks)]_vars

\* C4 (as claimed): a forward pass whose features have a channel count other
\* than EmbeddingDim never completes.
C4_ChannelMismatchFails ==
    (op = "forward" /\ args.inputs.shape[2] # EmbeddingDim) => outcome # "ok"

\* C5: a forward pass of silo 0 uses the NumEmbeddings codewords of codebook 0
\* alone; one of silo k > 0 uses codebook 0 followed by codebook k; every
\* quantized row is the accessible codeword its encoding index names; and the
\* weights of any other codebook of the store change nothing in the result.
C5_SiloReadsSharedAndOwn ==
    (ForwardOk /\ args.idx >= 0) =>
        LET codes == out.codes
            k == args.idx
        IN  /\ k = 0 => codes = codebooks[1].weight /\ Len(codes) = NumEmbeddings
            /\ k > 0 =>
                 /\ Len(codes) = 2 * NumEmbeddings
                 /\ \A i \in 1..NumEmbeddings :
                        /\ codes[i] = codebooks[1].weight[i]
                        /\ codes[NumEmbeddings + i] = codebooks[k + 1].weight[i]
            /\ \A r \in 1..Len(out.encoding_indices) :
                 /\ out.encoding_indices[r] \in 0..(Len(codes) - 1)
                 /\ QuantizedRows[r] = codes[out.encoding_indices[r] + 1]
            /\ \A j \in 1..Len(codebooks), w \in WeightPool :
                 (j # 1 /\ j # k + 1) =>
                     ForwardCall([codebooks EXCEPT ![j].weight = w],
                                 args.inputs, k, FALSE, w).out = out

C5_Witness ==
    /\ ForwardOk
    /\ args.idx > 0
    /\ Len(codebooks) = 3
    /\ \E r \in 1..Len(out.encoding_indices) :
           out.encoding_indices[r] >= NumEmbeddings
    /\ \E r \in 1..Len(out.encoding_indices) :
           out.encoding_indices[r] < NumEmbeddings

\* C6: the store holds exactly 2 codebooks after construction and at least 2
\* ever after, its length never decreases, and the codebook at an index stays
\* at that index.
C6_StoreOnlyGrows ==
    /\ Len(codebooks) = 2
    /\ [](Len(codebooks) >= 2)
    /\ [][/\ Len(codebooks') >= Len(codebooks)
          /\ \A i \in 1..Len(codebooks) : codebooks'[i].id = codebooks[i].id]_vars

C6_Witness ==
    /\ Len(codebooks) = 3
    /\ op = "load_codebooks"
    /\ outcome = "ok"
    /\ codebooks[1].weight # codebooks[3].weight

\* C7: the encoding matrix of a forward pass has one row per flattened feature
\* row, exactly one 1 in each row and 0 elsewhere, and its entries sum to the
\* number of flattened feature rows.
C7_EncodingsOneHot ==
    ForwardOk =>
        LET enc == out.encodings
            n == Len(out.flat_input)
        IN  /\ Len(enc) = n
            /\ n * EmbeddingDim = Numel(args.inputs.shape)
            /\ \A r \in 1..n :
                 /\ Len(enc[r]) = Len(out.codes)
                 /\ \A j \in 1..Len(enc[r]) : enc[r][j] \in {0, 1}
                 /\ Cardinality({j \in 1..Len(enc[r]) : enc[r][j] = 1}) = 1
            /\ SumSeq([r \in 1..n |-> SumSeq(enc[r])]) = n

C7_Witness ==
    /\ ForwardOk
    /\ Len(out.encodings) = 2
    /\ Len(out.codes) = 2 * NumEmbeddings
    /\ out.encoding_indices[1] # out.encoding_indices[2]

\* C8: the codeword chosen for a flattened feature row is the lowest-indexed
\* accessible codeword at minimal squared Euclidean distance from the row.
C8_FirstNearestCodeword ==
    ForwardOk =>
        \A r \in 1..Len(out.flat_input) :
            LET x == out.flat_input[r]
                j == out.encoding_indices[r] + 1
            IN  /\ j \in 1..Len(out.codes)
                /\ \A k \in 1..Len(out.codes) :
                       SqDist(x, out.codes[j]) <= SqDist(x, out.codes[k])
                /\ \A k \in 1..(j - 1) :
                       SqDist(x, out.codes[k]) > SqDist(x, out.codes[j])

\* A shared and a silo-specific codeword are equally near, and nearer than the
\* codewords before them: the shared one is chosen.
C8_Witness ==
    /\ ForwardOk
    /\ args.idx > 0
    /\ \E r \in 1..Len(out.flat_input) :
         LET x == out.flat_input[r]
             j == out.encoding_indices[r] + 1
         IN  /\ j = NumEmbeddings
             /\ \E k \in (NumEmbeddings + 1)..Len(out.codes) :
                    SqDist(x, out.codes[k]) = SqDist(x, out.codes[j])

\* C9: an init_codebooks call given fewer feature rows than NumEmbeddings
\* fails; a failed call leaves every codebook as it was; a successful call
\* changes nothing but the weights of its target codebook.
C9_InitTouchesOnlyTarget ==
    [][op' = "init_codebooks" =>
          /\ args'.nRows < NumEmbeddings => outcome' # "ok"
          /\ outcome' # "ok" => codebooks' = codebooks
          /\ outcome' = "ok" =>
               /\ Len(codebooks') = Len(codebooks)
               /\ \A i \in 1..Len(codebooks) :
                    /\ codebooks'[i].id = codebooks[i].id
                    /\ i # AbsIndex(args'.idx, Len(codebooks))
                           => codebooks'[i] = codebooks[i]]_vars

C9_Witness ==
    /\ op = "init_codebooks"
    /\ outcome = "ValueError"
    /\ args.nRows = 1
    /\ InRange(args.idx, Len(codebooks))
    /\ codebooks[1].weight # codebooks[2].weight

Next ==
    \/ Forward
    \/ GetCodebooks
    \/ LoadCodebooks
    \/ ExtendCodebooks
    \/ InitCodebooks
    \/ Return

Spec == Init /\ [][Next]_vars
====
